---------------------------- MODULE Spec2Model ----------------------------
(***************************************************************************)
(* File-based chat: BasicChatSender (chat_send.py) appends messages to a   *)
(* shared text file, BasicChatReceiver (chat_receive.py) polls the file.   *)
(*                                                                         *)
(* The chat file is a sequence of lines.  One line is one unit of file     *)
(* position: last_position counts the lines before the cursor.  A line is  *)
(* a record [k, uid, id]:                                                  *)
(*   k   = "hdr"   the "=== Chat Session Started ===" line                 *)
(*         "human" the "[timestamp] user: text" line                       *)
(*         "json"  a "JSON: {...}" line that json.loads accepts            *)
(*         "sep"   the line of 50 dashes                                   *)
(*         "jhead" the first part of a JSON line, without its newline      *)
(*         "jtail" the rest of a JSON line, with its newline               *)
(*         "badjson" a line that starts with 'JSON: ' and does not parse   *)
(*   id  = the message_id carried by a json line; NoId when the key is     *)
(*         absent or its value is falsy (None, 0, "")                      *)
(*   uid = the serial of the append that stored the json line (history     *)
(*         only, the code never sees it): it names the stored message      *)
(*                                                                         *)
(* What the model leaves out of the file system:                           *)
(*  - byte offsets: the cursor always stands between two lines.  After a   *)
(*    truncation the real byte offset can fall inside a line; the piece    *)
(*    read from there starts with neither 'JSON: ' nor a parseable object. *)
(*  - in Spec, SpecSolo and SpecSend send_message's three f.write calls     *)
(*    reach the file as one write (AppendMessage); SpecTorn also lets the  *)
(*    text arrive in two writes, split inside the JSON line.               *)
(*  - in all but SpecFail, open() failing for a reason other than a        *)
(*    missing file.                                                        *)
(***************************************************************************)
EXTENDS Integers, Sequences, FiniteSets, TLC

\* ------------------------------------------------------------ bounds
MaxSends == 2      \* messages each sender stores
MaxClock == 3      \* millisecond clock values 1..MaxClock
MaxForeign == 3    \* lines a foreign writer puts into the file (SpecR)
MaxHistory == 11   \* messages in the file when the receiver starts (SpecShow)

\* ------------------------------------------------- program constants
MaxMessageLen == 500   \* validate_message: len(message) > 500
ShowCount == 10        \* show_existing_messages(count=10)

Senders == {"s1", "s2"}
NoId == 0

VARIABLES
  exists,     \* os.path.exists(chat_file)
  file,       \* the lines of the chat file
  clock,      \* datetime.now() in milliseconds
  snd,        \* per sender: pc, arg, ret, msgid, sent
  rcv,        \* the receiver: pc, last_position, displayed_messages
  nextUid,    \* history: serial of the next stored message
  shown,      \* history: uids printed by show_existing_messages
  delivered,  \* history: the batches returned by read_new_messages
  first,      \* history: the fresh receiver's first read_new_messages call
  monStart    \* history: messages stored when monitor_chat began

vars == <<exists, file, clock, snd, rcv, nextUid, shown, delivered, first, monStart>>

\* ------------------------------------------------------------ strings
Rep(c, n) == [i \in 1..n |-> c]

\* The message texts send_message is called with, by name
Bodies == {"empty", "blank", "short", "spam", "max", "over"}
Text(b) == CASE b = "empty" -> <<>>
             [] b = "blank" -> <<" ", "\t">>
             [] b = "short" -> <<"h", "i">>
             [] b = "spam"  -> <<"S", "p", "a", "m">>
             [] b = "max"   -> Rep("a", MaxMessageLen)
             [] b = "over"  -> Rep("a", MaxMessageLen + 1)

\* Spec sends one acceptable body: a rejected body changes nothing but the
\* return value, and SpecSend explores every body
ChatBodies == {"short"}

IsSpace(c) == c \in {" ", "\t", "\n"}

\* str.strip(): drop leading and trailing whitespace
RECURSIVE LStrip(_)
LStrip(s) == IF s # <<>> /\ IsSpace(Head(s)) THEN LStrip(Tail(s)) ELSE s

RECURSIVE RStrip(_)
RStrip(s) == IF s # <<>> /\ IsSpace(s[Len(s)])
             THEN RStrip(SubSeq(s, 1, Len(s) - 1)) ELSE s

Strip(s) == RStrip(LStrip(s))

\* str.lower() on the letters the bodies use
LowerChar(c) == CASE c = "S" -> "s" [] c = "P" -> "p" [] c = "A" -> "a"
                  [] c = "M" -> "m" [] OTHER -> c
Lower(s) == [i \in 1..Len(s) |-> LowerChar(s[i])]

\* word in message
Contains(s, w) == \E i \in 1..(Len(s) - Len(w) + 1) : SubSeq(s, i, i + Len(w) - 1) = w

ProhibitedWords == { <<"s", "p", "a", "m">>, <<"t", "e", "s", "t", "1", "2", "3">> }

\* validate_message with the length test off by one (mutant)
ValidateMessageOffByOne(message) ==
  /\ Strip(message) # <<>>
  /\ ~(Len(message) >= MaxMessageLen)
  /\ ~(\E w \in ProhibitedWords : Contains(Lower(message), w))

\* validate_message: TRUE iff it returns (True, "")
ValidateMessage(message) ==
  /\ Strip(message) # <<>>
  /\ ~(Len(message) > MaxMessageLen)
  /\ ~(\E w \in ProhibitedWords : Contains(Lower(message), w))

\* validate_message on each body of Bodies
Validated == [b \in Bodies |-> ValidateMessage(Text(b))]

\* ------------------------------------------------------------ lines
HdrLine        == [k |-> "hdr",   uid |-> 0, id |-> NoId]
HumanLine      == [k |-> "human", uid |-> 0, id |-> NoId]
SepLine        == [k |-> "sep",   uid |-> 0, id |-> NoId]
JsonLine(u, i) == [k |-> "json",  uid |-> u, id |-> i]

JsonHead(u, i) == [k |-> "jhead", uid |-> u, id |-> i]
JsonTail(i)    == [k |-> "jtail", uid |-> 0, id |-> i]
BadJsonLine    == [k |-> "badjson", uid |-> 0, id |-> NoId]

\* content.split('\n'): the text up to each newline is one line.  The first
\* part of a JSON line followed by its rest is the whole line; followed by
\* anything else, or by the end of the text, it is a line that starts with
\* 'JSON: ' and does not parse (it runs on to the next newline).  A rest
\* with no first part before it is a line of its own.  (One sender writes
\* torn lines, so the rest that follows a first part is its own.)
RECURSIVE AfterNewline(_)
AfterNewline(ps) ==
  IF ps = <<>> THEN <<>>
  ELSE IF Head(ps).k = "jhead" THEN AfterNewline(Tail(ps)) ELSE Tail(ps)

RECURSIVE SplitLines(_)
SplitLines(ps) ==
  IF ps = <<>> THEN <<>>
  ELSE IF Head(ps).k # "jhead" THEN <<Head(ps)>> \o SplitLines(Tail(ps))
  ELSE IF Len(ps) >= 2 /\ ps[2].k = "jtail" /\ ps[2].id = ps[1].id
       THEN <<JsonLine(ps[1].uid, ps[1].id)>> \o SplitLines(Tail(Tail(ps)))
       ELSE <<BadJsonLine>> \o SplitLines(AfterNewline(Tail(ps)))

\* the lines that start with 'JSON: ' and parse, in file order
IsMessage(line) == line.k = "json"

\* the parse loop with break in place of continue at a line that json.loads
\* rejects (mutant)
RECURSIVE UpToMalformed(_)
UpToMalformed(ls) ==
  IF ls = <<>> \/ Head(ls).k = "badjson" THEN <<>>
  ELSE <<Head(ls)>> \o UpToMalformed(Tail(ls))
JsonMessagesStopAtBad(lines) == SelectSeq(UpToMalformed(SplitLines(lines)), IsMessage)

JsonMessages(lines) == SelectSeq(SplitLines(lines), IsMessage)

Uids(msgs) == [i \in 1..Len(msgs) |-> msgs[i].uid]
Range(s) == {s[i] : i \in 1..Len(s)}

RECURSIVE Flatten(_)
Flatten(ss) == IF ss = <<>> THEN <<>> ELSE Head(ss) \o Flatten(Tail(ss))


\* messages[:count] in place of messages[-count:] (mutant)
FirstN(s, n) == IF Len(s) <= n THEN s ELSE SubSeq(s, 1, n)

LastN(s, n) == IF Len(s) <= n THEN s ELSE SubSeq(s, Len(s) - n + 1, Len(s))

\* ------------------------------------------------------------ receiver
\* the loop of read_new_messages inserting at the front of the list (mutant)
RECURSIVE CollectReversed(_, _, _)
CollectReversed(msgs, disp, acc) ==
  IF msgs = <<>> THEN [msgs |-> acc, disp |-> disp]
  ELSE LET m == Head(msgs) IN
       IF m.id # NoId /\ m.id \notin disp
       THEN CollectReversed(Tail(msgs), disp \cup {m.id}, <<m>> \o acc)
       ELSE CollectReversed(Tail(msgs), disp, acc)

\* read_new_messages, lines 52-67: walk the parsed messages in order, keep a
\* message whose id is truthy and not yet in displayed_messages
RECURSIVE Collect(_, _, _)
Collect(msgs, disp, acc) ==
  IF msgs = <<>> THEN [msgs |-> acc, disp |-> disp]
  ELSE LET m == Head(msgs) IN
       IF m.id # NoId /\ m.id \notin disp
       THEN Collect(Tail(msgs), disp \cup {m.id}, Append(acc, m))
       ELSE Collect(Tail(msgs), disp, acc)

\* f.seek(last_position); f.read(): what lies after the cursor (nothing when
\* the cursor is at or past the end of the file)
NewContent(f, pos) == SubSeq(f, pos + 1, Len(f))

\* the size of the file taken as the new cursor (mutant)
TellEnd(f, pos) == Len(f)

\* f.tell() after the read
Tell(f, pos) == IF pos > Len(f) THEN pos ELSE Len(f)

\* read_new_messages that rescans the file and returns every message (mutant)
ReadNewMessagesRescan(f, ex, pos, disp) ==
  IF ~ex THEN [msgs |-> <<>>, pos |-> pos, disp |-> disp]
  ELSE [msgs |-> JsonMessages(f), pos |-> Tell(f, pos), disp |-> disp]

\* read_new_messages whose except branch forgets the cursor and the ids (mutant)
ReadNewMessagesResetOnError(f, ex, pos, disp) ==
  IF ~ex THEN [msgs |-> <<>>, pos |-> 0, disp |-> {}]
  ELSE LET c == Collect(JsonMessages(NewContent(f, pos)), disp, <<>>)
       IN [msgs |-> c.msgs, pos |-> Tell(f, pos), disp |-> c.disp]

\* read_new_messages: the returned list, the new cursor, the new id set.
\* A missing file raises in open() and is caught: nothing changes.
ReadNewMessages(f, ex, pos, disp) ==
  IF ~ex THEN [msgs |-> <<>>, pos |-> pos, disp |-> disp]
  ELSE LET c == Collect(JsonMessages(NewContent(f, pos)), disp, <<>>)
       IN [msgs |-> c.msgs, pos |-> Tell(f, pos), disp |-> c.disp]

\* ------------------------------------------------------------ initial state
InitSender == [pc |-> "start", arg |-> "empty", ret |-> "none",
               msgid |-> NoId, sent |-> 0]
InitReceiver == [pc |-> "new", last_position |-> 0, displayed_messages |-> {}]
InitFirst == [done |-> FALSE, n |-> 0, got |-> <<>>]

Init ==
  /\ exists = FALSE
  /\ file = <<>>
  /\ clock = 1
  /\ snd = [s \in Senders |-> InitSender]
  /\ rcv = InitReceiver
  /\ nextUid = 1
  /\ shown = <<>>
  /\ delivered = <<>>
  /\ first = InitFirst
  /\ monStart = 0

\* ------------------------------------------------------------ sender
\* ensure_chat_file_exists, line 35: the test
EnsureChatFileExists(s) ==
  /\ snd[s].pc = "start"
  /\ snd' = [snd EXCEPT ![s].pc = IF exists THEN "ready" ELSE "create"]
  /\ UNCHANGED <<exists, file, clock, rcv, nextUid, shown, delivered, first, monStart>>

\* line 36: open(chat_file, 'w') creates or truncates the file
CreateChatFile(s) ==
  /\ snd[s].pc = "create"
  /\ exists' = TRUE
  /\ file' = <<>>
  /\ snd' = [snd EXCEPT ![s].pc = "header"]
  /\ UNCHANGED <<clock, rcv, nextUid, shown, delivered, first, monStart>>

\* line 37 and the close: the header goes to offset 0 of the 'w' handle,
\* over the first line if another process has appended meanwhile
WriteHeader(s) ==
  /\ snd[s].pc = "header"
  /\ file' = IF file = <<>> THEN <<HdrLine>> ELSE [file EXCEPT ![1] = HdrLine]
  /\ snd' = [snd EXCEPT ![s].pc = "ready"]
  /\ UNCHANGED <<exists, clock, rcv, nextUid, shown, delivered, first, monStart>>

\* send_message, lines 98-105: validate, then format (the id is the clock)
SendMessage(s, b) ==
  /\ snd[s].pc = "ready"
  /\ snd[s].sent < MaxSends
  /\ snd' = [snd EXCEPT ![s] =
       IF Validated[b]
       THEN [@ EXCEPT !.arg = b, !.ret = "none", !.msgid = clock, !.pc = "append"]
       ELSE [@ EXCEPT !.arg = b, !.ret = "false"]]
  /\ UNCHANGED <<exists, file, clock, rcv, nextUid, shown, delivered, first, monStart>>

\* send_message, lines 109-120: open(chat_file, 'a'), the three lines, True
\* (formatted_message is a local: it is gone once the call returns)
AppendMessage(s) ==
  /\ snd[s].pc = "append"
  /\ exists' = TRUE
  /\ file' = file \o <<HumanLine, JsonLine(nextUid, snd[s].msgid), SepLine>>
  /\ nextUid' = nextUid + 1
  /\ snd' = [snd EXCEPT ![s].pc = "ready", ![s].ret = "true", ![s].sent = @ + 1,
                         ![s].msgid = NoId]
  /\ UNCHANGED <<clock, rcv, shown, delivered, first, monStart>>

\* the wall clock moves on
Tick ==
  /\ clock < MaxClock
  /\ clock' = clock + 1
  /\ UNCHANGED <<exists, file, snd, rcv, nextUid, shown, delivered, first, monStart>>

\* ------------------------------------------------------------ receiver
\* read_new_messages, called directly on the object or from the monitor loop
RcvReadNewMessages ==
  /\ rcv.pc \in {"new", "api", "poll"}
  /\ LET r == ReadNewMessages(file, exists, rcv.last_position, rcv.displayed_messages)
     IN /\ rcv' = [pc |-> IF rcv.pc = "new" THEN "api" ELSE rcv.pc,
                   last_position |-> r.pos,
                   displayed_messages |-> r.disp]
        /\ delivered' = IF r.msgs = <<>> THEN delivered
                        ELSE Append(delivered, Uids(r.msgs))
        /\ first' = IF rcv.pc = "new"
                    THEN [done |-> TRUE, n |-> nextUid - 1, got |-> Uids(r.msgs)]
                    ELSE first
  /\ UNCHANGED <<exists, file, clock, snd, nextUid, shown, monStart>>

\* monitor_chat, lines 171-174: check_chat_file_exists
MonitorChat ==
  /\ rcv.pc = "new"
  /\ rcv' = [rcv EXCEPT !.pc = IF exists THEN "show" ELSE "stopped"]
  /\ monStart' = nextUid - 1
  /\ UNCHANGED <<exists, file, clock, snd, nextUid, shown, delivered, first>>

\* the ids show_existing_messages adds: the truthy ids of the printed messages
ShownIds(recent) == {recent[i].id : i \in 1..Len(recent)} \ {NoId}

\* show_existing_messages, lines 122-155: readlines, print the last count
ShowExistingMessages ==
  /\ rcv.pc = "show"
  /\ LET messages == JsonMessages(file)
         recent == LastN(messages, ShowCount)
     IN IF messages # <<>>
        THEN /\ shown' = Uids(recent)
             /\ rcv' = [rcv EXCEPT !.pc = "seek",
                          !.displayed_messages = @ \cup ShownIds(recent)]
        ELSE /\ rcv' = [rcv EXCEPT !.pc = "poll"]
             /\ UNCHANGED shown
  /\ UNCHANGED <<exists, file, clock, snd, nextUid, delivered, first, monStart>>

\* show_existing_messages, lines 158-160: reopen, seek to the end, tell
SeekEnd ==
  /\ rcv.pc = "seek"
  /\ rcv' = [rcv EXCEPT !.pc = "poll", !.last_position = Len(file)]
  /\ UNCHANGED <<exists, file, clock, snd, nextUid, shown, delivered, first, monStart>>

Next ==
  \/ \E s \in Senders : EnsureChatFileExists(s)
  \/ \E s \in Senders : CreateChatFile(s)
  \/ \E s \in Senders : WriteHeader(s)
  \/ \E s \in Senders, b \in ChatBodies : SendMessage(s, b)
  \/ \E s \in Senders : AppendMessage(s)
  \/ Tick
  \/ RcvReadNewMessages
  \/ MonitorChat
  \/ ShowExistingMessages
  \/ SeekEnd

Spec == Init /\ [][Next]_vars


\* ------------------------------------------------ send_message alone
\* The senders with every body of Bodies, no receiver.
NextSend ==
  \/ \E s \in Senders : EnsureChatFileExists(s)
  \/ \E s \in Senders : CreateChatFile(s)
  \/ \E s \in Senders : WriteHeader(s)
  \/ \E s \in Senders, b \in Bodies : SendMessage(s, b)
  \/ \E s \in Senders : AppendMessage(s)
  \/ Tick

SpecSend == Init /\ [][NextSend]_vars

\* ------------------------------------- one sender and the receiver
\* A single sender process: nothing runs concurrently with its start-up or
\* its sends but the receiver and the clock.
Solo == {"s1"}

NextSolo ==
  \/ \E s \in Solo : EnsureChatFileExists(s)
  \/ \E s \in Solo : CreateChatFile(s)
  \/ \E s \in Solo : WriteHeader(s)
  \/ \E s \in Solo, b \in ChatBodies : SendMessage(s, b)
  \/ \E s \in Solo : AppendMessage(s)
  \/ Tick
  \/ RcvReadNewMessages
  \/ MonitorChat
  \/ ShowExistingMessages
  \/ SeekEnd

SpecSolo == Init /\ [][NextSolo]_vars

\* ------------------------------------- a write that arrives in two parts
\* send_message, lines 109-116, when the text reaches the file in two
\* writes: the human line and the first part of the JSON line, ...
AppendHead(s) ==
  /\ snd[s].pc = "append"
  /\ exists' = TRUE
  /\ file' = file \o <<HumanLine, JsonHead(nextUid, snd[s].msgid)>>
  /\ nextUid' = nextUid + 1
  /\ snd' = [snd EXCEPT ![s].pc = "tail"]
  /\ UNCHANGED <<clock, rcv, shown, delivered, first, monStart>>

\* ... then the rest of the JSON line and the separator; lines 118-120
AppendTail(s) ==
  /\ snd[s].pc = "tail"
  /\ file' = file \o <<JsonTail(snd[s].msgid), SepLine>>
  /\ snd' = [snd EXCEPT ![s].pc = "ready", ![s].ret = "true", ![s].sent = @ + 1,
                         ![s].msgid = NoId]
  /\ UNCHANGED <<exists, clock, rcv, nextUid, shown, delivered, first, monStart>>

NextTorn ==
  \/ \E s \in Solo : EnsureChatFileExists(s)
  \/ \E s \in Solo : CreateChatFile(s)
  \/ \E s \in Solo : WriteHeader(s)
  \/ \E s \in Solo, b \in ChatBodies : SendMessage(s, b)
  \/ \E s \in Solo : AppendMessage(s)
  \/ \E s \in Solo : AppendHead(s)
  \/ \E s \in Solo : AppendTail(s)
  \/ Tick
  \/ RcvReadNewMessages
  \/ MonitorChat
  \/ ShowExistingMessages
  \/ SeekEnd

SpecTorn == Init /\ [][NextTorn]_vars

\* ------------------------------------- a read that cannot open the file
\* read_new_messages when open() raises although the file is there (no
\* permission, too many open files): lines 69-70 catch the exception and
\* the call returns the empty list.  In monitor_chat the loop, lines
\* 182-192, goes on to sleep and to the next poll.
RcvReadFails ==
  /\ rcv.pc \in {"new", "api", "poll"}
  /\ LET r == ReadNewMessages(file, FALSE, rcv.last_position, rcv.displayed_messages)
     IN /\ rcv' = [pc |-> IF rcv.pc = "new" THEN "api" ELSE rcv.pc,
                   last_position |-> r.pos,
                   displayed_messages |-> r.disp]
        /\ delivered' = IF r.msgs = <<>> THEN delivered
                        ELSE Append(delivered, Uids(r.msgs))
        /\ first' = IF rcv.pc = "new"
                    THEN [done |-> TRUE, n |-> nextUid - 1, got |-> Uids(r.msgs)]
                    ELSE first
  /\ UNCHANGED <<exists, file, clock, snd, nextUid, shown, monStart>>

NextFail ==
  \/ \E s \in Solo : EnsureChatFileExists(s)
  \/ \E s \in Solo : CreateChatFile(s)
  \/ \E s \in Solo : WriteHeader(s)
  \/ \E s \in Solo, b \in ChatBodies : SendMessage(s, b)
  \/ \E s \in Solo : AppendMessage(s)
  \/ Tick
  \/ RcvReadNewMessages
  \/ RcvReadFails
  \/ MonitorChat
  \/ ShowExistingMessages
  \/ SeekEnd

SpecFail == Init /\ [][NextFail]_vars

\* ------------------------------------- a receiver that joins late
\* The chat file already holds a header and n messages, n = 0..MaxHistory,
\* written by earlier sender sessions (their ids, timestamps of the past,
\* lie before the clock of this run); one sender goes on sending.
RECURSIVE History(_, _)
History(n, k) ==
  IF k = 0 THEN <<HdrLine>>
  ELSE History(n, k - 1) \o <<HumanLine, JsonLine(k, k - n - 1), SepLine>>

InitShow ==
  /\ exists = TRUE
  /\ \E n \in 0..MaxHistory : file = History(n, n) /\ nextUid = n + 1
  /\ clock = 1
  /\ snd = [s \in Senders |-> InitSender]
  /\ rcv = InitReceiver
  /\ shown = <<>>
  /\ delivered = <<>>
  /\ first = InitFirst
  /\ monStart = 0

NextShow ==
  \/ \E s \in Solo : EnsureChatFileExists(s)
  \/ \E s \in Solo, b \in ChatBodies : SendMessage(s, b)
  \/ \E s \in Solo : AppendMessage(s)
  \/ Tick
  \/ RcvReadNewMessages
  \/ MonitorChat
  \/ ShowExistingMessages
  \/ SeekEnd

SpecShow == InitShow /\ [][NextShow]_vars

\* ------------------------------------- the receiver over any chat file
\* The chat file is a path any program can write.  Here an existing file is
\* filled line by line by a foreign writer: human lines, separators, and
\* JSON lines with an id, or with no message_id at all.
ForeignIds == {NoId, 1, 2}

InitR ==
  /\ exists = TRUE
  /\ file = <<>>
  /\ clock = 1
  /\ snd = [s \in Senders |-> InitSender]
  /\ rcv = InitReceiver
  /\ nextUid = 1
  /\ shown = <<>>
  /\ delivered = <<>>
  /\ first = InitFirst
  /\ monStart = 0

ForeignAppendJson(i) ==
  /\ Len(file) < MaxForeign
  /\ file' = Append(file, JsonLine(nextUid, i))
  /\ nextUid' = nextUid + 1
  /\ UNCHANGED <<exists, clock, snd, rcv, shown, delivered, first, monStart>>

ForeignAppendText ==
  /\ Len(file) < MaxForeign
  /\ file' = Append(file, HumanLine)
  /\ UNCHANGED <<exists, clock, snd, rcv, nextUid, shown, delivered, first, monStart>>

\* a 'JSON: ' line whose payload json.loads rejects
ForeignAppendMalformed ==
  /\ Len(file) < MaxForeign
  /\ file' = Append(file, BadJsonLine)
  /\ UNCHANGED <<exists, clock, snd, rcv, nextUid, shown, delivered, first, monStart>>

NextR ==
  \/ \E i \in ForeignIds : ForeignAppendJson(i)
  \/ ForeignAppendText
  \/ ForeignAppendMalformed
  \/ RcvReadNewMessages
  \/ MonitorChat
  \/ ShowExistingMessages
  \/ SeekEnd

SpecR == InitR /\ [][NextR]_vars

\* ------------------------------------------------------------ history
Returned == Flatten(delivered)       \* every uid read_new_messages returned
Displayed == Range(Returned) \cup Range(shown)
NoRepeat(q) == \A i, j \in 1..Len(q) : i # j => q[i] # q[j]
Increasing(q) == \A i, j \in 1..Len(q) : i < j => q[i] < q[j]
IsPrefix(p, q) == Len(p) <= Len(q) /\ SubSeq(q, 1, Len(p)) = p
Ids(msgs) == {msgs[i].id : i \in 1..Len(msgs)}

\* ------------------------------------------------------------ claims

\* C1: one receiver never delivers the same stored message twice: no uid is
\* returned twice by read_new_messages (in one call or in two), and no uid
\* printed by show_existing_messages is returned by read_new_messages.
C1_NoRedelivery ==
  /\ NoRepeat(Returned)
  /\ Range(Returned) \cap Range(shown) = {}

\* C1 witness: messages were printed at start-up and two later polls each
\* returned messages.
C1_Witness == shown # <<>> /\ Len(delivered) >= 2

\* C10: the messages read_new_messages returns, within a call and over the
\* concatenation of the calls, are in the order their lines were appended.
C10_StoreOrder == Increasing(Returned)

\* C10 witness: two calls returned messages, one of them two at once.
C10_Witness ==
  /\ Len(delivered) >= 2
  /\ \E i \in 1..Len(delivered) : Len(delivered[i]) >= 2

\* the bodies the claim calls empty or too long, and those of exactly 500
\* characters with nothing else wrong
Rejected == {b \in Bodies : Strip(Text(b)) = <<>> \/ Len(Text(b)) > MaxMessageLen}
AtLimit == {b \in Bodies :
              /\ Len(Text(b)) = MaxMessageLen
              /\ Strip(Text(b)) # <<>>
              /\ \A w \in ProhibitedWords : ~Contains(Lower(Text(b)), w)}

\* C8: send_message with a body that is empty or whitespace only, or longer
\* than 500 characters, returns False and leaves the chat file as it was; a
\* body of exactly 500 characters with nothing else wrong goes on to be
\* written, and its call returns True with one more message in the file.
C8_Validation ==
  /\ [][\A s \in Senders : \A b \in Bodies :
          SendMessage(s, b) =>
            /\ b \in Rejected => /\ snd'[s].ret = "false"
                                 /\ snd'[s].pc = "ready"
                                 /\ file' = file
                                 /\ exists' = exists
            /\ b \in AtLimit => snd'[s].pc = "append"]_vars
  /\ [][\A s \in Senders :
          (snd[s].pc = "append" /\ snd'[s].pc = "ready") =>
            /\ snd'[s].ret = "true"
            /\ Len(JsonMessages(file')) = Len(JsonMessages(file)) + 1]_vars
  /\ [](\A s \in Senders :
          (snd[s].ret # "none" /\ snd[s].arg \in AtLimit) => snd[s].ret = "true")

\* C8 witness: one sender's call with 500 characters returned True, the
\* other's call with 501 characters returned False.
C8_Witness ==
  \E s, t \in Senders :
    /\ snd[s].ret = "true" /\ Len(Text(snd[s].arg)) = MaxMessageLen
    /\ snd[t].ret = "false" /\ Len(Text(snd[t].arg)) = MaxMessageLen + 1

Min(a, b) == IF a <= b THEN a ELSE b

\* C2: every message stored after the receiver began monitor_chat is
\* eventually displayed.  The cursor never moves back, so a message behind
\* it is never read again: in the polling loop every message stored since
\* monitor_chat began that lies behind last_position must already have been
\* displayed (printed at start-up or returned by read_new_messages).
C2_NoneSkipped ==
  rcv.pc = "poll" =>
    \A i \in 1..Min(rcv.last_position, Len(file)) :
      (IsMessage(file[i]) /\ file[i].uid > monStart) => file[i].uid \in Displayed

\* C3: after N successful sends, a fresh receiver's one read_new_messages
\* call returns exactly those N messages, in the order they were sent.
C3_ReadCompleteness ==
  first.done => first.got = [i \in 1..first.n |-> i]

\* C4: a send whose message id is already carried by a stored message is
\* rejected: it returns False and the number of stored messages stays.
C4_DuplicateRejected ==
  [][\A s \in Senders :
       (/\ snd[s].pc = "append"
        /\ snd'[s].pc = "ready"
        /\ snd[s].msgid \in Ids(JsonMessages(file)))
       => /\ snd'[s].ret = "false"
          /\ Len(JsonMessages(file')) = Len(JsonMessages(file))]_vars

\* C5: no sender operation removes or alters a stored message: every step
\* leaves the stored messages as they were, with new ones only after them.
C5_AppendOnly == [][IsPrefix(JsonMessages(file), JsonMessages(file'))]_vars

\* C6: last_position never decreases and never exceeds the length of the
\* chat file.
C6_CursorInFile ==
  /\ [](rcv.last_position <= Len(file))
  /\ [][rcv'.last_position >= rcv.last_position]_vars

\* C7: a stored message with no message_id is delivered by
\* read_new_messages to a receiver whose cursor was before it: once a
\* receiver that only calls read_new_messages has its cursor past such a
\* line, the message has been returned.
C7_IdlessDelivered ==
  rcv.pc = "api" =>
    \A i \in 1..Min(rcv.last_position, Len(file)) :
      (IsMessage(file[i]) /\ file[i].id = NoId) => file[i].uid \in Range(Returned)

\* C9: when every sender has sent its MaxSends messages, the file holds
\* exactly (number of senders) x MaxSends stored messages with pairwise
\* distinct identifiers.
C9_AllStored ==
  (\A s \in Senders : snd[s].pc = "ready" /\ snd[s].sent = MaxSends) =>
    LET msgs == JsonMessages(file) IN
      /\ Len(msgs) = Cardinality(Senders) * MaxSends
      /\ \A i, j \in 1..Len(msgs) : i # j => msgs[i].id # msgs[j].id

\* C11: a poll that finds nothing new changes nothing: when the file is no
\* longer than it was at the receiver's previous read (the cursor is at or
\* past its end), read_new_messages returns an empty list and leaves
\* last_position and displayed_messages as they were.
C11_IdlePoll ==
  [][(RcvReadNewMessages /\ Len(file) <= rcv.last_position) =>
       /\ rcv'.last_position = rcv.last_position
       /\ rcv'.displayed_messages = rcv.displayed_messages
       /\ delivered' = delivered]_vars

\* C11 witness: the receiver is in its polling loop, has returned messages,
\* and the file has not grown since: the poll taken here leads back here.
C11_Witness ==
  /\ rcv.pc = "poll"
  /\ delivered # <<>>
  /\ Len(file) = rcv.last_position
  /\ ENABLED RcvReadNewMessages

\* C12: a message is not lost when a poll races with its write: nothing
\* half-formed is returned, and once the whole JSON line lies behind the
\* cursor of a receiver that only calls read_new_messages, the message has
\* been returned (messages sharing an id with another one set aside).
WholeAt(i) ==
  \/ file[i].k = "json"
  \/ file[i].k = "jtail" /\ i > 1 /\ file[i - 1].k = "jhead"
MessageAt(i) == IF file[i].k = "json" THEN file[i] ELSE file[i - 1]
AloneWithId(i) ==
  \A j \in 1..Len(file) :
    (j # i /\ WholeAt(j)) => MessageAt(j).id # MessageAt(i).id

C12_TornNotLost ==
  /\ Range(Returned) \subseteq {m.uid : m \in Range(JsonMessages(file))}
  /\ rcv.pc = "api" =>
       \A i \in 1..Min(rcv.last_position, Len(file)) :
         (WholeAt(i) /\ AloneWithId(i)) => MessageAt(i).uid \in Range(Returned)

\* C13: at start-up show_existing_messages, with N messages in the file,
\* prints exactly the last min(10, N) of them in file order; when N > 0 it
\* then sets last_position to the end of the file, and the polls that
\* follow return only messages appended after the printed ones; when N = 0
\* last_position stays 0.  (In SpecShow the stored messages are uids 1..N
\* in file order.)
Stored == nextUid - 1
C13_Replay ==
  /\ [](Uids(JsonMessages(file)) = [i \in 1..Stored |-> i])
  /\ [][(rcv.pc = "show" /\ rcv'.pc # "show") =>
          /\ shown' = [k \in 1..Min(ShowCount, Stored) |->
                         Stored - Min(ShowCount, Stored) + k]
          /\ rcv'.last_position = 0
          /\ Stored = 0 <=> rcv'.pc = "poll"]_vars
  /\ [][(rcv.pc = "seek" /\ rcv'.pc # "seek") =>
          /\ rcv'.pc = "poll"
          /\ rcv'.last_position = Len(file)]_vars
  /\ [](rcv.pc = "poll" =>
          \A u \in Range(Returned) :
            /\ u > monStart
            /\ \A j \in 1..Len(shown) : u > shown[j])

\* C13 witness: 11 messages were in the file, the last 10 were printed, and
\* a later poll has returned a message appended since, up to the end.
C13_Witness ==
  /\ rcv.pc = "poll"
  /\ Len(shown) = ShowCount /\ shown[1] = 2
  /\ delivered # <<>>
  /\ rcv.last_position = Len(file)

\* C14: a read_new_messages call that cannot open the chat file returns
\* the empty list and leaves last_position and displayed_messages as they
\* were; in monitor_chat the loop is still polling afterwards, and in
\* either mode the receiver is where the next read can be made.
C14_ReadFailureScoped ==
  [][RcvReadFails =>
       /\ rcv'.last_position = rcv.last_position
       /\ rcv'.displayed_messages = rcv.displayed_messages
       /\ delivered' = delivered
       /\ rcv.pc = "poll" => rcv'.pc = "poll"
       /\ rcv'.pc \in {"api", "poll"}]_vars

\* C14 witness: the first read failed on a file that held messages (nothing
\* returned, cursor still 0), and a later read has returned them.
C14_Witness ==
  /\ first.done /\ first.n > 0 /\ first.got = <<>>
  /\ delivered # <<>>
  /\ rcv.last_position = Len(file)

\* C15: a 'JSON: ' line whose payload is not valid JSON is skipped and the
\* rest of the batch is not affected: when the content of one
\* read_new_messages call holds such a line, every message in that content
\* that carries a message_id not yet in displayed_messages, and is the first
\* with that id in the content, is in the returned list, whether it stands
\* before or after the malformed line; and the cursor ends past the
\* malformed line, at the end of the file.
ReadRange == (rcv.last_position + 1)..Len(file)
HasMalformed == \E j \in ReadRange : file[j].k = "badjson"
NotYetSeen(i) ==
  /\ IsMessage(file[i])
  /\ file[i].id # NoId
  /\ file[i].id \notin rcv.displayed_messages
  /\ \A h \in ReadRange : (h < i /\ IsMessage(file[h])) => file[h].id # file[i].id
C15_MalformedSkipped ==
  [][(RcvReadNewMessages /\ HasMalformed) =>
       /\ \A i \in ReadRange :
            NotYetSeen(i) =>
              /\ delivered' # delivered
              /\ file[i].uid \in Range(delivered'[Len(delivered')])
       /\ rcv'.last_position = Len(file)]_vars

\* C15 witness: one read returned a message standing before a malformed
\* line and a message standing after it, and the cursor is at the end.
C15_Witness ==
  /\ rcv.last_position = Len(file)
  /\ \E b \in 1..Len(delivered) : \E i, j, k \in 1..Len(file) :
       /\ i < j /\ j < k
       /\ file[j].k = "badjson"
       /\ IsMessage(file[i]) /\ file[i].uid \in Range(delivered[b])
       /\ IsMessage(file[k]) /\ file[k].uid \in Range(delivered[b])

=============================================================================
